---- MODULE Spec2Model ----
(***************************************************************************)
(* Model of the DMA generation pass of lib/Transforms/DmaGeneration.cpp.   *)
(*                                                                         *)
(* The ML function is a tree of statements.  `stmt' is the table of all    *)
(* statements (index = identity of the statement and of the SSA value it   *)
(* defines; a 'for' statement is its own induction variable), `body' gives *)
(* for every block (0 = the function body, l = the body of loop l) the     *)
(* ordered list of its statements.  Memrefs that are function arguments    *)
(* are negative numbers.                                                   *)
(***************************************************************************)
EXTENDS Integers, Sequences, FiniteSets, TLC

VARIABLES
    stmt,           \* statement table: Seq of records
    body,           \* block id -> Seq of statement ids
    pc,             \* position of the pass
    it,             \* runOnMLFunction: iterator over the function body (0 = end)
    cur,            \* runOnForStmt: its forStmt argument
    descents,       \* number of recursive runOnForStmt calls for this top-level loop
    dmaDepth,       \* DmaGeneration::dmaDepth
    regions,        \* DmaGeneration::regions
    fastBufferMap,  \* DmaGeneration::fastBufferMap, a set of <<memref, buffer>>
    ri,             \* index of the next region of the loop `for (region : regions)'
    last,           \* record of the last generateDma call (history)
    log             \* per processed top-level loop: what runOnForStmt did (history)

vars == <<stmt, body, pc, it, cur, descents, dmaDepth, regions, fastBufferMap,
          ri, last, log>>

----------------------------------------------------------------------------
(* Bounds of the input family.                                             *)

MaxDepth == 2       \* longest chain of loops nested as first body entries
MaxOps == 2         \* most memory operations in the innermost body
TripCount == 2      \* trip count of the loops with constant bounds

(* Program constants: the defaults of the constructor's arguments.         *)
slowMemorySpace == 0
fastMemorySpaceArg == 1

----------------------------------------------------------------------------
(* Generic helpers.                                                        *)

RECURSIVE SumSeq(_)
SumSeq(s) == IF s = <<>> THEN 0 ELSE Head(s) + SumSeq(Tail(s))

RECURSIVE ProdSeq(_)
ProdSeq(s) == IF s = <<>> THEN 1 ELSE Head(s) * ProdSeq(Tail(s))

Abs(x) == IF x < 0 THEN -x ELSE x

Range(s) == {s[i] : i \in DOMAIN s}

IndexOf(s, x) == CHOOSE i \in DOMAIN s : s[i] = x

InsertAt(s, i, x) == SubSeq(s, 1, i - 1) \o <<x>> \o SubSeq(s, i, Len(s))

----------------------------------------------------------------------------
(* The input functions.                                                    *)
(*                                                                         *)
(* Function arguments come first in the statement table: A is a 1-d and B  *)
(* a 2-d memref in slow memory, F a 1-d memref already in fast memory.     *)

Args ==
    << [kind |-> "arg", parent |-> 0, shape |-> <<16>>, space |-> slowMemorySpace],
       [kind |-> "arg", parent |-> 0, shape |-> <<16, 16>>, space |-> slowMemorySpace],
       [kind |-> "arg", parent |-> 0, shape |-> <<16>>, space |-> fastMemorySpaceArg] >>

Mem == [A |-> 1, B |-> 2, F |-> 3]

NArgs == Len(Args)

(* Access patterns of the memory operations of the innermost body.  An     *)
(* index is  inner * (innermost IV) + outer * (outermost IV) + const;      *)
(* affine is FALSE for an access whose region the analysis cannot compute. *)
Ix(i, o, c) == [inner |-> i, outer |-> o, const |-> c]

Catalog ==
    { [kind |-> "load",  memref |-> Mem.A, affine |-> TRUE, acc |-> <<Ix(1, 0, 0)>>],
      [kind |-> "store", memref |-> Mem.A, affine |-> TRUE, acc |-> <<Ix(1, 0, 0)>>],
      [kind |-> "load",  memref |-> Mem.A, affine |-> TRUE, acc |-> <<Ix(1, 1, 0)>>],
      [kind |-> "store", memref |-> Mem.B, affine |-> TRUE, acc |-> <<Ix(0, 1, 1), Ix(1, 0, 0)>>] }

Steps == {1, 2}

(* Trip counts of the innermost loop: constant, zero, or not a constant.   *)
Trips == { [trip |-> TripCount, const |-> TRUE],
           [trip |-> 0,         const |-> TRUE],
           [trip |-> TripCount, const |-> FALSE] }

OpSeqs == UNION { [1..n -> Catalog] : n \in 1..MaxOps }

ForRec(par, st, tr) ==
    [kind |-> "for", parent |-> par, step |-> st, trip |-> tr.trip, const |-> tr.const]

NoRemap == [numDims |-> 0, results |-> <<>>]

(* A memory operation.  idx[d] is the affine function of the enclosing     *)
(* loops' induction variables that indexes dimension d; remap is the index *)
(* remap a rewrite has put in front of the operation (NoRemap if none).    *)
MemOp(par, k, m, aff, idx) ==
    [kind |-> k, parent |-> par, memref |-> m, affine |-> aff, idx |-> idx,
     remap |-> NoRemap]

Expr(coef, c) == [coef |-> coef, const |-> c]

(* The function                                                            *)
(*   for %1 .. { [load A[%1]]  for %2 .. { ... ops ... }  load A[%1 + 2] } *)
(*   load A[5]                                                             *)
(*   for %L2 .. { load F[%L2] ; load A[non-affine] ; store B[%L2, 1] }     *)
(* with a chain of D loops, each the FIRST entry of its parent's body      *)
(* unless lead puts a load in front of the second loop.  The region of the *)
(* non-affine load cannot be computed.                                     *)
MkStmts(D, steps, tr, lead, ops, step2) ==
    LET b  == NArgs
        n  == Len(ops)
        loops == [k \in 1..D |->
                    ForRec(IF k = 1 THEN 0 ELSE b + k - 1, steps[k],
                           IF k = D THEN tr ELSE [trip |-> TripCount, const |-> TRUE])]
        coefOf(a) == [l \in (b + 1)..(b + D) |->
                        IF l = b + D THEN a.inner
                        ELSE IF l = b + 1 THEN a.outer ELSE 0]
        inner == [j \in 1..n |->
                    MemOp(b + D, ops[j].kind, ops[j].memref, ops[j].affine,
                          [d \in DOMAIN ops[j].acc |->
                              Expr(coefOf(ops[j].acc[d]), ops[j].acc[d].const)])]
        outerIx == <<Expr((b + 1) :> 1, 0)>>
        leadS == IF lead /\ D > 1
                 THEN <<MemOp(b + 1, "load", Mem.A, TRUE, outerIx)>> ELSE <<>>
        trailS == IF D > 1
                  THEN <<MemOp(b + 1, "load", Mem.A, TRUE, <<Expr((b + 1) :> 1, 2)>>)>>
                  ELSE <<>>
        l2 == b + D + n + Len(leadS) + Len(trailS) + 2
        rest == << MemOp(0, "load", Mem.A, TRUE, <<Expr(<<>>, 5)>>),
                   ForRec(0, step2, [trip |-> TripCount, const |-> TRUE]),
                   MemOp(l2, "load", Mem.F, TRUE, <<Expr(l2 :> 1, 0)>>),
                   MemOp(l2, "load", Mem.A, FALSE, <<Expr(l2 :> 1, 0)>>),
                   MemOp(l2, "store", Mem.B, TRUE,
                         <<Expr(l2 :> 1, 0), Expr(l2 :> 0, 1)>>) >>
    IN Args \o loops \o inner \o leadS \o trailS \o rest

MkBody(D, lead, n) ==
    LET b == NArgs
        leadIds == IF lead /\ D > 1 THEN <<b + D + n + 1>> ELSE <<>>
        trailIds == IF D > 1 THEN <<b + D + n + Len(leadIds) + 1>> ELSE <<>>
        u == b + D + n + Len(leadIds) + Len(trailIds) + 1
        l2 == u + 1
    IN [l \in {0} \cup ((b + 1)..(b + D)) \cup {l2} |->
          IF l = 0 THEN <<b + 1, u, l2>>
          ELSE IF l = l2 THEN <<l2 + 1, l2 + 2, l2 + 3>>
          ELSE IF l = b + D THEN [j \in 1..n |-> b + D + j]
          ELSE IF l = b + 1 THEN leadIds \o <<b + 2>> \o trailIds
          ELSE <<l + 1>>]

----------------------------------------------------------------------------
(* Queries on the statement tree.                                          *)

IsFor(s) == stmt[s].kind = "for"

IsMemOp(s) == stmt[s].kind \in {"load", "store"}

Rank(m) == Len(stmt[m].shape)

(* getParentStmt: the enclosing loop, 0 for a top-level statement.         *)
ParentOf(s) == stmt[s].parent

(* Position of a statement in its block.                                   *)
PosOf(s) == IndexOf(body[ParentOf(s)], s)

RECURSIVE Ancestors(_)
Ancestors(s) ==
    IF ParentOf(s) = 0 THEN {} ELSE {ParentOf(s)} \cup Ancestors(ParentOf(s))

(* Enclosing loops of s, outermost first.                                  *)
RECURSIVE EnclosingLoops(_)
EnclosingLoops(s) ==
    IF ParentOf(s) = 0 THEN <<>>
    ELSE Append(EnclosingLoops(ParentOf(s)), ParentOf(s))

(* A variant of getNestingDepth that forgets to count.                     *)
getNestingDepthZero(s) == 0

(* getNestingDepth: the number of loops surrounding the statement.         *)
RECURSIVE getNestingDepth(_)
getNestingDepth(s) ==
    IF ParentOf(s) = 0 THEN 0
    ELSE (IF IsFor(ParentOf(s)) THEN 1 ELSE 0) + getNestingDepth(ParentOf(s))

(* The statement after s in its block, 0 at the end of the block.          *)
NextIn(ir, s) ==
    LET seq == ir.body[ir.stmt[s].parent]
        p == IndexOf(seq, s)
    IN IF p = Len(seq) THEN 0 ELSE seq[p + 1]

IR == [stmt |-> stmt, body |-> body]

(* a dominates b in an ML function: b, or a statement enclosing b, is in   *)
(* a's block at or after a.  Function arguments dominate everything.       *)
RECURSIVE AncestorIn(_, _, _)
AncestorIn(ir, blk, s) ==
    IF ir.stmt[s].kind = "arg" THEN 0
    ELSE IF ir.stmt[s].parent = blk THEN s
    ELSE IF ir.stmt[s].parent = 0 THEN 0
    ELSE AncestorIn(ir, blk, ir.stmt[s].parent)

Dominates(ir, a, b) ==
    \/ ir.stmt[a].kind = "arg"
    \/ LET blk == ir.stmt[a].parent
           anc == AncestorIn(ir, blk, b)
       IN /\ anc # 0
          /\ IndexOf(ir.body[blk], anc) >= IndexOf(ir.body[blk], a)

(* The memrefs a statement uses.                                           *)
MemRefUses(r) ==
    IF r.kind \in {"load", "store"} THEN {r.memref}
    ELSE IF r.kind = "dma_start" THEN {r.src, r.dst}
    ELSE {}

----------------------------------------------------------------------------
(* Affine expressions in linear form: coef[i] is the coefficient of the    *)
(* dimension d(i-1), trailing zero coefficients are dropped, so that an    *)
(* expression is an AffineConstantExpr iff coef is empty.                  *)

RECURSIVE Trim(_)
Trim(c) ==
    IF c # <<>> /\ c[Len(c)] = 0 THEN Trim(SubSeq(c, 1, Len(c) - 1)) ELSE c

CoefAt(e, i) == IF i <= Len(e.coef) THEN e.coef[i] ELSE 0

getAffineConstantExpr(c) == [coef |-> <<>>, const |-> c]

getAffineDimExpr(pos) ==
    [coef |-> [i \in 1..(pos + 1) |-> IF i = pos + 1 THEN 1 ELSE 0], const |-> 0]

ExprMul(k, e) ==
    [coef |-> Trim([i \in DOMAIN e.coef |-> k * e.coef[i]]), const |-> k * e.const]

ExprSub(e1, e2) ==
    LET n == IF Len(e1.coef) > Len(e2.coef) THEN Len(e1.coef) ELSE Len(e2.coef)
    IN [coef |-> Trim([i \in 1..n |-> CoefAt(e1, i) - CoefAt(e2, i)]),
        const |-> e1.const - e2.const]

IsConstantExpr(e) == e.coef = <<>>

(* Value of an expression with dimension d(i-1) bound to operands[i].      *)
EvalExpr(e, operands) ==
    SumSeq([i \in DOMAIN e.coef |-> e.coef[i] * operands[i]]) + e.const

----------------------------------------------------------------------------
(* The affine analysis the pass consumes: the region of a memory operation *)
(* symbolic in the loopDepth outermost loops around it, with the loops     *)
(* from depth loopDepth on eliminated.  Columns of a constraint row: the   *)
(* rank region dimensions, one column per symbol, the constant.  Row d of  *)
(* ineq is the lower bound of dimension d:  x_d - lb_d >= 0.               *)

MinIV(l) == 0

MaxIV(l) == IF stmt[l].trip > 0 THEN (stmt[l].trip - 1) * stmt[l].step ELSE 0

IVValues(l) == { i * stmt[l].step : i \in 0..(stmt[l].trip - 1) }

Min2(a, b) == IF a < b THEN a ELSE b

getMemRefRegion(op, loopDepth) ==
    LET r == stmt[op]
        encl == EnclosingLoops(op)
        syms == SubSeq(encl, 1, loopDepth)
        elim == SubSeq(encl, loopDepth + 1, Len(encl))
        rank == Rank(r.memref)
        nsym == Len(syms)
        lo(d) == SumSeq([k \in DOMAIN elim |->
                    Min2(r.idx[d].coef[elim[k]] * MinIV(elim[k]),
                         r.idx[d].coef[elim[k]] * MaxIV(elim[k]))])
        span(d) == SumSeq([k \in DOMAIN elim |->
                    Abs(r.idx[d].coef[elim[k]]) * (MaxIV(elim[k]) - MinIV(elim[k]))])
        row(d) == [j \in 1..(rank + nsym + 1) |->
                    IF j <= rank THEN (IF j = d THEN 1 ELSE 0)
                    ELSE IF j <= rank + nsym THEN 0 - r.idx[d].coef[syms[j - rank]]
                    ELSE 0 - (r.idx[d].const + lo(d))]
        empty == \E k \in DOMAIN elim : stmt[elim[k]].const /\ stmt[elim[k]].trip = 0
        constant == \A d \in 1..rank : \A k \in DOMAIN elim :
                        r.idx[d].coef[elim[k]] # 0 => stmt[elim[k]].const
        shape == [d \in 1..rank |-> IF empty THEN 0 ELSE span(d) + 1]
    IN [ok |-> r.affine,
        region |->
          [memref |-> r.memref,
           write |-> (r.kind = "store"),
           cst |-> [ids |-> syms, ineq |-> [d \in 1..rank |-> row(d)],
                    numCols |-> rank + nsym + 1],
           hasSize |-> (empty \/ constant),
           numElements |-> ProdSeq(shape),
           shape |-> shape]]

(* FlatAffineConstraints::getConstantBoundDifference: the row that holds   *)
(* the lower bound of dimension d (0-based).                               *)
getConstantBoundDifference(cst, d) == d + 1

(* cst->atIneq(row, col), col 0-based as in the code.                      *)
atIneq(cst, lbPos, j) == cst.ineq[lbPos][j + 1]

----------------------------------------------------------------------------
(* Region collection.                                                      *)

(* StmtWalker::walk: the operation statements of a block, in order, loops  *)
(* entered as they are met.                                                *)
RECURSIVE WalkSeq(_)
WalkSeq(seq) ==
    IF seq = <<>> THEN <<>>
    ELSE (IF IsFor(Head(seq)) THEN WalkSeq(body[Head(seq)]) ELSE <<Head(seq)>>)
         \o WalkSeq(Tail(seq))

(* visitOperationStmt: the regions it appends for operation op.            *)
visitOperationStmt(op, depth) ==
    IF ~IsMemOp(op) THEN <<>>
    ELSE IF stmt[stmt[op].memref].space # slowMemorySpace THEN <<>>
    ELSE LET got == getMemRefRegion(op, depth)
         IN IF ~got.ok THEN <<>> ELSE <<got.region>>

RECURSIVE CollectRegions(_, _)
CollectRegions(ops, depth) ==
    IF ops = <<>> THEN <<>>
    ELSE visitOperationStmt(Head(ops), depth) \o CollectRegions(Tail(ops), depth)

----------------------------------------------------------------------------
(* Instruction builders.  A builder is a block and the statement it        *)
(* inserts in front of (anchor 0: the end of the block).                   *)

Builder(blk, anchor) == [block |-> blk, anchor |-> anchor]

(* MLFuncBuilder(forStmt): in front of the loop.                           *)
PrologueBuilder(ir, forStmt) == Builder(ir.stmt[forStmt].parent, forStmt)

(* MLFuncBuilder(forStmt->getBlock(), std::next(iterator(forStmt))).       *)
EpilogueBuilder(ir, forStmt) == Builder(ir.stmt[forStmt].parent, NextIn(ir, forStmt))

(* A variant of TopBuilder that appends to the function.                   *)
TopBuilderAtEnd(ir) == [block |-> 0, anchor |-> 0]

(* MLFuncBuilder(forStmt->findFunction()): the start of the function.      *)
TopBuilder(ir) == Builder(0, Head(ir.body[0]))

NewId(ir) == Len(ir.stmt) + 1

(* builder.create<Op>(...): the new statement goes in front of the anchor. *)
Create(ir, bld, rec) ==
    LET seq == ir.body[bld.block]
        pos == IF bld.anchor = 0 THEN Len(seq) + 1 ELSE IndexOf(seq, bld.anchor)
    IN [stmt |-> Append(ir.stmt, [rec EXCEPT !.parent = bld.block]),
        body |-> [ir.body EXCEPT ![bld.block] = InsertAt(seq, pos, NewId(ir))]]

ConstantIndexOp(v) == [kind |-> "constant", parent |-> 0, value |-> v]

AllocOp(shape, space) ==
    [kind |-> "alloc", parent |-> 0, shape |-> shape, space |-> space]

AffineApplyOp(map, operands) ==
    [kind |-> "affine_apply", parent |-> 0, map |-> map, operands |-> operands]

DmaStartOp(src, srcIdx, dst, dstIdx, num, tag, tagIdx) ==
    [kind |-> "dma_start", parent |-> 0, src |-> src, srcIdx |-> srcIdx,
     dst |-> dst, dstIdx |-> dstIdx, num |-> num, tag |-> tag, tagIdx |-> tagIdx]

DmaWaitOp(tag, tagIdx, num) ==
    [kind |-> "dma_wait", parent |-> 0, tag |-> tag, tagIdx |-> tagIdx, num |-> num]

(* getAffineMap(dimCount, 0, results, {}).                                 *)
getAffineMap(dimCount, results) == [numDims |-> dimCount, results |-> results]

----------------------------------------------------------------------------
(* replaceAllMemRefUsesWith(oldMemRef, newMemRef, {}, indexRemap,          *)
(* domStmtFilter): every use of oldMemRef in a statement that              *)
(* domStmtFilter dominates names newMemRef instead, its indices fed        *)
(* through indexRemap.                                                     *)
replaceAllMemRefUsesWith(ir, oldMemRef, newMemRef, indexRemap, domStmtFilter) ==
    LET hit(s) == /\ oldMemRef \in MemRefUses(ir.stmt[s])
                  /\ Dominates(ir, domStmtFilter, s)
        rewrite(r) ==
            IF r.kind = "dma_start"
            THEN [r EXCEPT !.src = IF @ = oldMemRef THEN newMemRef ELSE @,
                           !.dst = IF @ = oldMemRef THEN newMemRef ELSE @]
            ELSE [r EXCEPT !.memref = newMemRef, !.remap = indexRemap]
    IN [ir EXCEPT !.stmt = [s \in DOMAIN ir.stmt |->
                               IF hit(s) THEN rewrite(ir.stmt[s]) ELSE ir.stmt[s]]]

----------------------------------------------------------------------------
(* DmaGeneration::generateDma.                                             *)

(* The offset of dimension d: the inner loop over the symbol columns.      *)
RECURSIVE OffsetLoop(_, _, _, _, _)
OffsetLoop(cst, rank, lbPos, j, offset) ==
    IF j >= cst.numCols - 1 THEN offset
    ELSE OffsetLoop(cst, rank, lbPos, j + 1,
                    ExprSub(offset, ExprMul(atIneq(cst, lbPos, j),
                                            getAffineDimExpr(j - rank))))

ComputeOffset(cst, rank, d) ==
    LET lbPos == getConstantBoundDifference(cst, d)
        offset == OffsetLoop(cst, rank, lbPos, rank, getAffineConstantExpr(0))
    IN ExprSub(offset, getAffineConstantExpr(atIneq(cst, lbPos, cst.numCols - 1)))

(* The operands of the affine_apply: the identifiers from rank on.         *)
SymbolOperands(cst) == cst.ids

(* The loop over the dimensions, d = 0 .. rank-1: emits the source index   *)
(* of each dimension.  acc = [ir, offsets, srcIndices, destIndices].       *)
RECURSIVE DimLoop(_, _, _, _, _, _, _)
DimLoop(acc, cst, rank, d, top, b, zeroIndex) ==
    IF d >= rank THEN acc
    ELSE LET offset == ComputeOffset(cst, rank, d)
             operands == SymbolOperands(cst)
             rec == IF IsConstantExpr(offset)
                    THEN ConstantIndexOp(offset.const)
                    ELSE AffineApplyOp(getAffineMap(Len(cst.ids), <<offset>>), operands)
             bld == IF IsConstantExpr(offset) THEN top ELSE b
         IN DimLoop([ir |-> Create(acc.ir, bld, rec),
                     offsets |-> Append(acc.offsets, offset),
                     srcIndices |-> Append(acc.srcIndices, NewId(acc.ir)),
                     destIndices |-> Append(acc.destIndices, zeroIndex)],
                    cst, rank, d + 1, top, b, zeroIndex)

(* A variant of FastBufferFound that never finds the buffer.               *)
FastBufferNeverFound(fbm, memref) == FALSE

(* Whether the fast buffer map has an entry for memref.                    *)
FastBufferFound(fbm, memref) == \E e \in fbm : e[1] = memref

FastBufferOf(fbm, memref) == (CHOOSE e \in fbm : e[1] = memref)[2]

(* A variant of RecordBuffer that forgets the new buffer.                  *)
RecordNothing(fbm, memref, fastMemRef) == fbm

(* fastBufferMap[memref] = fastMemRef.                                     *)
RecordBuffer(fbm, memref, fastMemRef) == fbm \cup {<<memref, fastMemRef>>}

(* A variant of MatchingWait with the tag index and the count exchanged.   *)
MatchingWaitSwapped(tagMemRef, zeroIndex, numElementsSSA) ==
    DmaWaitOp(tagMemRef, numElementsSSA, zeroIndex)

(* The matching wait: b->create<DmaWaitOp>(loc, tagMemRef, zeroIndex,      *)
(* numElementsSSA).                                                        *)
MatchingWait(tagMemRef, zeroIndex, numElementsSSA) ==
    DmaWaitOp(tagMemRef, zeroIndex, numElementsSSA)

(* The remap: dim_i - offsets[i] for every dimension, as a map of rank     *)
(* inputs.                                                                 *)
IndexRemap(rank, offsets) ==
    getAffineMap(rank, [i \in 1..rank |-> ExprSub(getAffineDimExpr(i - 1), offsets[i])])

(* A variant of DomStmtFilter that names the loop itself.                  *)
DomStmtFilterLoop(ir, forStmt) == forStmt

(* The scope of the use rewrite: &*forStmt->begin().                       *)
DomStmtFilter(ir, forStmt) == Head(ir.body[forStmt])

(* Which builder the copy goes to.                                         *)
CopyBuilder(isWrite, prologue, epilogue) == IF isWrite THEN epilogue ELSE prologue

(* A variant of CopyOp that copies slow -> fast whatever the region is.    *)
CopyOpReadOnly(isWrite, memref, srcIndices, fastMemRef, destIndices, num, tag, zeroIndex) ==
    DmaStartOp(memref, srcIndices, fastMemRef, destIndices, num, tag, zeroIndex)

(* The copy: slow -> fast for a read region, fast -> slow for a write.     *)
CopyOp(isWrite, memref, srcIndices, fastMemRef, destIndices, num, tag, zeroIndex) ==
    IF ~isWrite
    THEN DmaStartOp(memref, srcIndices, fastMemRef, destIndices, num, tag, zeroIndex)
    ELSE DmaStartOp(fastMemRef, destIndices, memref, srcIndices, num, tag, zeroIndex)

(* The size check: the region has a constant, non-zero size.               *)
SizeOk(region) == region.hasSize /\ region.numElements # 0

generateDma(ir0, fbm, region, forStmt) ==
    LET prologue == PrologueBuilder(ir0, forStmt)
        epilogue == EpilogueBuilder(ir0, forStmt)
        b == CopyBuilder(region.write, prologue, epilogue)
        top == TopBuilder(ir0)
        cst == region.cst
        memref == region.memref
        rank == Len(ir0.stmt[memref].shape)
        zeroIndex == NewId(ir0)
        ir1 == Create(ir0, top, ConstantIndexOp(0))
    IN IF ~SizeOk(region)
       THEN [ok |-> FALSE, ir |-> ir1, fbm |-> fbm, offsets |-> <<>>]
       ELSE
         LET dl == DimLoop([ir |-> ir1, offsets |-> <<>>, srcIndices |-> <<>>,
                            destIndices |-> <<>>], cst, rank, 0, top, b, zeroIndex)
             found == FastBufferFound(fbm, memref)
             ir2 == IF found THEN dl.ir
                    ELSE Create(dl.ir, prologue,
                                AllocOp(region.shape, fastMemorySpaceArg))
             fastMemRef == IF found THEN FastBufferOf(fbm, memref) ELSE NewId(dl.ir)
             fbm2 == IF found THEN fbm ELSE RecordBuffer(fbm, memref, fastMemRef)
             tagMemRef == NewId(ir2)
             ir3 == Create(ir2, prologue, AllocOp(<<1>>, 0))
             numElementsSSA == NewId(ir3)
             ir4 == Create(ir3, top, ConstantIndexOp(region.numElements))
             ir5 == Create(ir4, b,
                       CopyOp(region.write, memref, dl.srcIndices, fastMemRef,
                              dl.destIndices, numElementsSSA, tagMemRef, zeroIndex))
             ir6 == Create(ir5, b, MatchingWait(tagMemRef, zeroIndex, numElementsSSA))
             indexRemap == IndexRemap(rank, dl.offsets)
             ir7 == replaceAllMemRefUsesWith(ir6, memref, fastMemRef, indexRemap,
                                             DomStmtFilter(ir6, forStmt))
         IN [ok |-> TRUE, ir |-> ir7, fbm |-> fbm2, offsets |-> dl.offsets]

----------------------------------------------------------------------------
(* The pass.                                                               *)

NoCall == [called |-> FALSE]

Init ==
    /\ \E D \in 1..MaxDepth, tr \in Trips, lead \in BOOLEAN, ops \in OpSeqs,
          step2 \in Steps :
          \E steps \in [1..D -> Steps] :
              /\ stmt = MkStmts(D, steps, tr, lead, ops, step2)
              /\ body = MkBody(D, lead, Len(ops))
    /\ pc = "func"
    /\ it = Head(body[0])
    /\ cur = 0
    /\ descents = 0
    /\ dmaDepth = 0
    /\ regions = <<>>
    /\ fastBufferMap = {}
    /\ ri = 1
    /\ last = NoCall
    /\ log = <<>>

(* The conditions under which each step of the pass is taken.              *)
AtOtherStmt == pc = "func" /\ it # 0 /\ ~IsFor(it)

AtForStmt == pc = "func" /\ it # 0 /\ IsFor(it)

AtEnd == pc = "func" /\ it = 0

StepIsUnit(forStmt) == stmt[forStmt].step = 1

FirstEntry(forStmt) == Head(body[forStmt])

MustDescend == pc = "runOnForStmt" /\ ~StepIsUnit(cur) /\ IsFor(FirstEntry(cur))

MustSkip == pc = "runOnForStmt" /\ ~StepIsUnit(cur) /\ ~IsFor(FirstEntry(cur))

MustSelect == pc = "runOnForStmt" /\ StepIsUnit(cur)

MoreRegions == pc = "lower" /\ ri <= Len(regions)

NoMoreRegions == pc = "lower" /\ ri > Len(regions)

(* runOnMLFunction: a statement of the function body that is no loop.      *)
VisitStmt ==
    /\ AtOtherStmt
    /\ it' = NextIn(IR, it)
    /\ UNCHANGED <<stmt, body, pc, cur, descents, dmaDepth, regions,
                   fastBufferMap, ri, last, log>>

(* runOnMLFunction: a top-level loop; runOnForStmt is called on it.        *)
EnterFor ==
    /\ AtForStmt
    /\ pc' = "runOnForStmt"
    /\ cur' = it
    /\ descents' = 0
    /\ log' = Append(log, [top |-> it, sel |-> 0, depth |-> 0, entry |-> IR,
                           returned |-> FALSE, exit |-> IR])
    /\ UNCHANGED <<stmt, body, it, dmaDepth, regions, fastBufferMap, ri, last>>

(* runOnMLFunction: the end of the body; the pass reports success.         *)
Finish ==
    /\ AtEnd
    /\ pc' = "success"
    /\ UNCHANGED <<stmt, body, it, cur, descents, dmaDepth, regions,
                   fastBufferMap, ri, last, log>>

(* runOnForStmt, step != 1, the first body entry is a loop: recurse.       *)
Descend ==
    /\ MustDescend
    /\ cur' = FirstEntry(cur)
    /\ descents' = descents + 1
    /\ UNCHANGED <<stmt, body, pc, it, dmaDepth, regions, fastBufferMap, ri,
                   last, log>>

(* All pending runOnForStmt calls return; runOnMLFunction moves on.        *)
ReturnToFunction ==
    /\ pc' = "func"
    /\ it' = NextIn(IR, it)
    /\ log' = [log EXCEPT ![Len(log)].returned = TRUE, ![Len(log)].exit = IR]

(* runOnForStmt, step != 1, the first body entry is no loop: return.       *)
SkipLoop ==
    /\ MustSkip
    /\ ReturnToFunction
    /\ UNCHANGED <<stmt, body, cur, descents, dmaDepth, regions, fastBufferMap,
                   ri, last>>

(* runOnForStmt, unit step: the loop is selected and walked.               *)
SelectLoop ==
    /\ MustSelect
    /\ dmaDepth' = getNestingDepth(cur)
    /\ regions' = CollectRegions(WalkSeq(body[cur]), getNestingDepth(cur))
    /\ fastBufferMap' = {}
    /\ ri' = 1
    /\ pc' = "lower"
    /\ log' = [log EXCEPT ![Len(log)].sel = cur,
                          ![Len(log)].depth = getNestingDepth(cur)]
    /\ UNCHANGED <<stmt, body, it, cur, descents, last>>

(* One iteration of `for (region : regions) generateDma(region, forStmt)'. *)
GenerateDma ==
    /\ MoreRegions
    /\ LET res == generateDma(IR, fastBufferMap, regions[ri], cur)
       IN /\ stmt' = res.ir.stmt
          /\ body' = res.ir.body
          /\ fastBufferMap' = res.fbm
          /\ last' = [called |-> TRUE, ok |-> res.ok, region |-> regions[ri],
                      forStmt |-> cur, pre |-> IR, preMap |-> fastBufferMap,
                      offsets |-> res.offsets]
    /\ ri' = ri + 1
    /\ UNCHANGED <<pc, it, cur, descents, dmaDepth, regions, log>>

(* runOnForStmt: all regions are done.                                     *)
ReturnFromFor ==
    /\ NoMoreRegions
    /\ ReturnToFunction
    /\ UNCHANGED <<stmt, body, cur, descents, dmaDepth, regions, fastBufferMap,
                   ri, last>>

Next ==
    \/ VisitStmt
    \/ EnterFor
    \/ Finish
    \/ Descend
    \/ SkipLoop
    \/ SelectLoop
    \/ GenerateDma
    \/ ReturnFromFor

Spec == Init /\ [][Next]_vars

----------------------------------------------------------------------------
(* Vocabulary of the properties.                                           *)

Stmts == DOMAIN stmt

(* The statements the last generateDma call created.                       *)
NewOfLast == (Len(last.pre.stmt) + 1)..Len(stmt)

NewOfKind(k) == { s \in NewOfLast : stmt[s].kind = k }

IsFastAlloc(s) == stmt[s].kind = "alloc" /\ stmt[s].space = fastMemorySpaceArg

IsSlowArg(m) == stmt[m].kind = "arg" /\ stmt[m].space = slowMemorySpace

InsideLoop(s, forStmt) == stmt[s].kind # "arg" /\ forStmt \in Ancestors(s)

(* The two sides of a copy.                                                *)
SlowSide(s) == IF IsSlowArg(stmt[s].src) THEN stmt[s].src ELSE stmt[s].dst

FastSide(s) == IF IsSlowArg(stmt[s].src) THEN stmt[s].dst ELSE stmt[s].src

SlowSideIdx(s) == IF IsSlowArg(stmt[s].src) THEN stmt[s].srcIdx ELSE stmt[s].dstIdx

IsZeroConstant(v) == stmt[v].kind = "constant" /\ stmt[v].value = 0

Succeeded == last.called /\ last.ok

Failed == last.called /\ ~last.ok

----------------------------------------------------------------------------
(* C1: whenever generateDma returns failure (the region's constant size is *)
(* absent or zero), the instruction stream after the call equals the       *)
(* instruction stream before it: nothing was inserted, no use changed.     *)
C1_FailureLeavesStreamUnchanged ==
    Failed => (stmt = last.pre.stmt /\ body = last.pre.body)

----------------------------------------------------------------------------
(* C2: a successful generateDma call (constant non-zero size) emits        *)
(* exactly one tag allocation, one copy-start and one wait; it emits one   *)
(* fast-buffer allocation if the slow object was not in the buffer map     *)
(* before the call and none if it was; afterwards no statement inside the  *)
(* loop body uses the slow object.                                         *)
C2_SuccessEmitsOneOfEach ==
    Succeeded =>
        LET memref == last.region.memref
            wasMapped == \E e \in last.preMap : e[1] = memref
            starts == NewOfKind("dma_start")
            waits == NewOfKind("dma_wait")
            allocs == NewOfKind("alloc")
            tags == { a \in allocs : \E s \in starts : stmt[s].tag = a }
            fast == { a \in allocs : IsFastAlloc(a) }
        IN /\ last.region.hasSize /\ last.region.numElements # 0
           /\ Cardinality(starts) = 1
           /\ Cardinality(waits) = 1
           /\ Cardinality(tags) = 1
           /\ Cardinality(fast) = (IF wasMapped THEN 0 ELSE 1)
           /\ allocs = tags \cup fast
           /\ tags \cap fast = {}
           /\ \A s \in Stmts :
                 InsideLoop(s, last.forStmt) => memref \notin MemRefUses(stmt[s])

(* Both cases of C2 happen: a call that reuses a mapped buffer.            *)
C2_Witness ==
    /\ Succeeded
    /\ \E e \in last.preMap : e[1] = last.region.memref
    /\ NewOfKind("dma_start") # {}

----------------------------------------------------------------------------
(* C3: among the copies emitted while one selected loop is processed, all  *)
(* copies of the same slow object use the same fast buffer, and no more    *)
(* fast buffers are allocated than there are slow objects copied.          *)
EmittedFor(i) ==
    (Len(log[i].entry.stmt) + 1) ..
        (IF log[i].returned THEN Len(log[i].exit.stmt) ELSE Len(stmt))

C3_OneFastBufferPerObject ==
    \A i \in DOMAIN log :
        LET starts == { s \in EmittedFor(i) : stmt[s].kind = "dma_start" }
            fast == { a \in EmittedFor(i) : IsFastAlloc(a) }
        IN /\ \A s1, s2 \in starts :
                 SlowSide(s1) = SlowSide(s2) => FastSide(s1) = FastSide(s2)
           /\ \A s \in starts : FastSide(s) \in fast
           /\ Cardinality(fast) <= Cardinality({ SlowSide(s) : s \in starts })

(* A loop with a read copy and a write copy of the same object.            *)
C3_Witness ==
    \E i \in DOMAIN log :
        \E s1, s2 \in EmittedFor(i) :
            /\ stmt[s1].kind = "dma_start" /\ stmt[s2].kind = "dma_start"
            /\ s1 # s2
            /\ IsSlowArg(stmt[s1].src) /\ IsSlowArg(stmt[s2].dst)
            /\ stmt[s1].src = stmt[s2].dst

----------------------------------------------------------------------------
(* C4: the copy-start of a read region goes from the slow object to the    *)
(* fast buffer and stands before the loop; the copy-start of a write       *)
(* region goes from the fast buffer to the slow object and stands after    *)
(* the loop; the indices on the fast side are the constant zero in every   *)
(* dimension.                                                              *)
C4_CopyDirection ==
    Succeeded =>
        \A s \in NewOfKind("dma_start") :
            LET r == last.region
                f == last.forStmt
                blk == body[ParentOf(f)]
            IN /\ ParentOf(s) = ParentOf(f)
               /\ IF r.write
                  THEN /\ stmt[s].dst = r.memref
                       /\ IsFastAlloc(stmt[s].src)
                       /\ IndexOf(blk, s) > IndexOf(blk, f)
                       /\ Len(stmt[s].srcIdx) = Rank(r.memref)
                       /\ \A d \in DOMAIN stmt[s].srcIdx : IsZeroConstant(stmt[s].srcIdx[d])
                  ELSE /\ stmt[s].src = r.memref
                       /\ IsFastAlloc(stmt[s].dst)
                       /\ IndexOf(blk, s) < IndexOf(blk, f)
                       /\ Len(stmt[s].dstIdx) = Rank(r.memref)
                       /\ \A d \in DOMAIN stmt[s].dstIdx : IsZeroConstant(stmt[s].dstIdx[d])

(* A write region of the 2-d object has been lowered.                      *)
C4_Witness ==
    /\ Succeeded
    /\ last.region.write
    /\ Rank(last.region.memref) = 2
    /\ NewOfKind("dma_start") # {}

----------------------------------------------------------------------------
(* C5: every copy-start is immediately followed, in its block, by a wait   *)
(* on the same tag buffer and the same element count, and no tag buffer is *)
(* referenced by two copy-starts.                                          *)
C5_WaitFollowsStart ==
    LET starts == { s \in Stmts : stmt[s].kind = "dma_start" }
    IN /\ \A s \in starts :
             LET w == NextIn(IR, s)
             IN /\ w # 0
                /\ stmt[w].kind = "dma_wait"
                /\ stmt[w].tag = stmt[s].tag
                /\ stmt[w].tagIdx = stmt[s].tagIdx
                /\ stmt[w].num = stmt[s].num
                /\ stmt[stmt[s].tag].kind = "alloc"
                /\ stmt[stmt[s].num].kind = "constant"
       /\ \A s1, s2 \in starts : stmt[s1].tag = stmt[s2].tag => s1 = s2

(* The pass has ended with two copies that share one fast buffer.          *)
C5_Witness ==
    /\ pc = "success"
    /\ \E s1, s2 \in Stmts :
          /\ s1 # s2
          /\ stmt[s1].kind = "dma_start" /\ stmt[s2].kind = "dma_start"
          /\ FastSide(s1) = FastSide(s2)

----------------------------------------------------------------------------
(* C6: in every state of the pass, every value a statement uses is defined *)
(* by a statement that precedes the use or by a loop that encloses it, and *)
(* the only state in which the pass stops is the one reporting success.    *)
Operands(r) ==
    IF r.kind \in {"load", "store"}
    THEN {r.memref} \cup
         { l \in UNION { DOMAIN r.idx[d].coef : d \in DOMAIN r.idx } :
              \E d \in DOMAIN r.idx : r.idx[d].coef[l] # 0 }
    ELSE IF r.kind = "affine_apply" THEN Range(r.operands)
    ELSE IF r.kind = "dma_start"
         THEN {r.src, r.dst, r.num, r.tag, r.tagIdx}
              \cup Range(r.srcIdx) \cup Range(r.dstIdx)
    ELSE IF r.kind = "dma_wait" THEN {r.tag, r.tagIdx, r.num}
    ELSE {}

Available(v, s) ==
    IF stmt[v].kind = "arg" THEN TRUE
    ELSE IF IsFor(v) THEN v \in Ancestors(s)
    ELSE v # s /\ Dominates(IR, v, s)

UsesAreDominated ==
    \A s \in Stmts :
        (stmt[s].kind # "arg") => (\A v \in Operands(stmt[s]) : Available(v, s))

(* The pass has a next step in every state but the one that reports        *)
(* success.                                                                *)
HasNextStep ==
    \/ AtOtherStmt \/ AtForStmt \/ AtEnd
    \/ MustDescend \/ MustSkip \/ MustSelect
    \/ MoreRegions \/ NoMoreRegions

C6_ValidUntilSuccess ==
    /\ UsesAreDominated
    /\ (pc = "success" \/ HasNextStep)

(* The pass has ended after a copy-out whose start index is computed by an *)
(* affine_apply of an outer loop's induction variable.                     *)
C6_Witness ==
    /\ pc = "success"
    /\ \E s \in Stmts :
          /\ stmt[s].kind = "dma_start"
          /\ IsSlowArg(stmt[s].dst)
          /\ \E d \in DOMAIN stmt[s].dstIdx :
                stmt[stmt[s].dstIdx[d]].kind = "affine_apply"

----------------------------------------------------------------------------
(* C7: a successful generateDma call leaves every statement that is not    *)
(* inside the body of the processed loop exactly as it was, and the copy   *)
(* it emits names the slow object.                                         *)
C7_RewriteStaysInLoop ==
    Succeeded =>
        /\ \A s \in DOMAIN last.pre.stmt :
              ~InsideLoop(s, last.forStmt) => stmt[s] = last.pre.stmt[s]
        /\ \A s \in NewOfKind("dma_start") :
              /\ SlowSide(s) = last.region.memref
              /\ ~InsideLoop(s, last.forStmt)

(* The object is also used by a statement after the loop in the enclosing  *)
(* loop's body and by a copy emitted earlier.                              *)
C7_Witness ==
    /\ Succeeded
    /\ \E s \in DOMAIN last.pre.stmt :
          /\ last.pre.stmt[s].kind = "load"
          /\ last.pre.stmt[s].memref = last.region.memref
          /\ ParentOf(s) = ParentOf(last.forStmt)
          /\ ParentOf(s) # 0
          /\ PosOf(s) > PosOf(last.forStmt)
    /\ \E s \in DOMAIN last.pre.stmt :
          /\ last.pre.stmt[s].kind = "dma_start"
          /\ last.region.memref \in MemRefUses(last.pre.stmt[s])

----------------------------------------------------------------------------
(* C8: for every top-level loop, runOnForStmt selects the first unit-step  *)
(* loop on the chain of first body entries, provided every loop before it  *)
(* on the chain has a non-unit step; dmaDepth is the number of loops that  *)
(* enclose the selected loop; generateDma is only called for the selected  *)
(* loop; if the chain has no unit-step loop the function is left as it     *)
(* was; the descent makes fewer steps than the chain is long and always    *)
(* has a way on (descend, skip or select).                                 *)
RECURSIVE Chain(_, _)
Chain(ir, l) ==
    LET first == Head(ir.body[l])
    IN <<l>> \o (IF ir.stmt[first].kind = "for" THEN Chain(ir, first) ELSE <<>>)

UnitPositions(ir, chain) == { k \in DOMAIN chain : ir.stmt[chain[k]].step = 1 }

FirstUnit(ir, chain) ==
    IF UnitPositions(ir, chain) = {} THEN 0
    ELSE CHOOSE k \in UnitPositions(ir, chain) :
            \A j \in UnitPositions(ir, chain) : k <= j

C8_SelectsFirstUnitStride ==
    /\ \A i \in DOMAIN log :
          LET e == log[i]
              chain == Chain(e.entry, e.top)
              k == FirstUnit(e.entry, chain)
          IN /\ (e.sel # 0) => (k # 0 /\ e.sel = chain[k] /\ e.depth = k - 1)
             /\ e.returned => ((e.sel = 0) = (k = 0))
             /\ (e.returned /\ e.sel = 0) => (e.exit = e.entry)
             /\ (i = Len(log) /\ ~e.returned) => (descents < Len(chain))
    /\ (pc = "lower") => (cur = log[Len(log)].sel /\ dmaDepth = log[Len(log)].depth)
    /\ last.called => (\E i \in DOMAIN log : log[i].sel = last.forStmt)
    /\ (pc = "runOnForStmt") => (MustDescend \/ MustSkip \/ MustSelect)

(* A loop was selected below a non-unit loop, and another top-level loop   *)
(* was skipped.                                                            *)
C8_Witness ==
    /\ pc = "success"
    /\ \E i \in DOMAIN log : log[i].sel # 0 /\ log[i].depth > 0
    /\ \E i \in DOMAIN log : log[i].sel = 0 /\ log[i].returned

----------------------------------------------------------------------------
(* Evaluation of maps and accesses.                                        *)

(* Sample values of the outer-loop symbols and of fast-buffer positions.   *)
SymbolValues == 0..TripCount

Positions == 0..1

(* A map names only dimensions that it has.                                *)
WellFormedMap(map) == \A i \in DOMAIN map.results : Len(map.results[i].coef) <= map.numDims

ApplyMap(map, inputs) == [i \in DOMAIN map.results |-> EvalExpr(map.results[i], inputs)]

RECURSIVE SumOver(_, _)
SumOver(f, S) ==
    IF S = {} THEN 0
    ELSE LET x == CHOOSE y \in S : TRUE IN f[x] + SumOver(f, S \ {x})

(* The index of dimension d of memory operation s in the iteration val.    *)
AccessIndex(s, d, val) ==
    LET e == stmt[s].idx[d]
    IN SumOver([l \in DOMAIN e.coef |-> e.coef[l] * val[l]], DOMAIN e.coef) + e.const

(* The iterations of the loops around s.                                   *)
Iterations(s) ==
    LET loops == Ancestors(s)
        all == UNION { IVValues(l) : l \in loops }
    IN { val \in [loops -> all] : \A l \in loops : val[l] \in IVValues(l) }

----------------------------------------------------------------------------
(* C9: for a successfully lowered region and every dimension d, the offset *)
(* is minus the lower-bound row's symbol coefficients applied to the       *)
(* outer-loop symbols, minus the row's constant; the slow-side start index *)
(* of the copy is that offset (a constant, or an affine_apply over the     *)
(* outer-loop operands); and the index remap has rank inputs and rank      *)
(* outputs and takes the slow index offset_d + k to the fast index k.      *)
C9_OffsetsAndRemap ==
    Succeeded =>
        LET r == last.region
            cst == r.cst
            rank == Rank(r.memref)
            nsym == Len(cst.ids)
            vals == [1..nsym -> SymbolValues]
            lb(d, v) == 0 - SumSeq([j \in 1..nsym |-> cst.ineq[d][rank + j] * v[j]])
                          - cst.ineq[d][cst.numCols]
            remap == IndexRemap(rank, last.offsets)
        IN /\ Len(last.offsets) = rank
           /\ \A d \in 1..rank : \A v \in vals :
                 EvalExpr(last.offsets[d], v) = lb(d, v)
           /\ \A s \in NewOfKind("dma_start") : \A d \in 1..rank :
                 LET ix == stmt[SlowSideIdx(s)[d]]
                 IN IF IsConstantExpr(last.offsets[d])
                    THEN ix.kind = "constant" /\ ix.value = last.offsets[d].const
                    ELSE /\ ix.kind = "affine_apply"
                         /\ ix.map.results = <<last.offsets[d]>>
                         /\ ix.operands = cst.ids
           /\ remap.numDims = rank
           /\ Len(remap.results) = rank
           /\ WellFormedMap(remap)
           /\ \A v \in vals : \A k \in [1..rank -> Positions] :
                 ApplyMap(remap, [d \in 1..rank |-> lb(d, v) + k[d]]) = k

----------------------------------------------------------------------------
(* C10: every rewritten access inside a processed loop addresses the fast  *)
(* buffer within its bounds in every iteration and every dimension, and no *)
(* copy transfers more elements than the fast buffer it names holds.       *)
C10_FastBufferInBounds ==
    /\ \A s \in Stmts :
          (IsMemOp(s) /\ stmt[s].remap # NoRemap) =>
              /\ WellFormedMap(stmt[s].remap)
              /\ \A val \in Iterations(s) :
                    LET rank == Len(stmt[s].idx)
                        out == ApplyMap(stmt[s].remap,
                                        [d \in 1..rank |-> AccessIndex(s, d, val)])
                    IN \A d \in 1..rank :
                          out[d] >= 0 /\ out[d] < stmt[stmt[s].memref].shape[d]
    /\ \A s \in Stmts :
          (stmt[s].kind = "dma_start") =>
              stmt[stmt[s].num].value <= ProdSeq(stmt[FastSide(s)].shape)

====
